---------------------------- MODULE Spec2Model ----------------------------
(***************************************************************************)
(* systemd-pcrextend (src/pcrextend/pcrextend.c): command line parsing,    *)
(* mode resolution, the word builders, the two environment gates, the      *)
(* extension engine extend_now() and the Varlink method Extend.            *)
(*                                                                         *)
(* Strings that are measured are sequences of byte values.  A C pointer    *)
(* that may be NULL is a sequence of length 0 (NULL) or 1 (the pointee).   *)
(***************************************************************************)
EXTENDS Integers, Sequences, FiniteSets

(***************************************************************************)
(* Bounds of the model.                                                    *)
(***************************************************************************)
MaxOpts == 3        \* options getopt_long() returns on one command line
MaxCalls == 2       \* Extend RPC calls served by one service process
MaxWords == 2       \* positional arguments on one command line

(***************************************************************************)
(* Program constants.                                                      *)
(***************************************************************************)
\* (unsigned) -1: TLC's integers are 32-bit signed, so the all-ones value is
\* written as the signed number with the same bits.
UINT_MAX == -1
EXTENSION_STRING_SAFE_LIMIT == 1024
TPM2_PCRS_MAX == 24
TPM2_PCR_KERNEL_BOOT == 11
TPM2_PCR_SYSTEM_IDENTITY == 15
EXIT_SUCCESS == 0
EXIT_FAILURE == 1
EIO == 5
ENOPKG == 65

NULL == <<>>
Some(x) == <<x>>
Val(p) == p[1]

(***************************************************************************)
(* Input alphabets.                                                        *)
(***************************************************************************)
Banks == {"SHA1", "SHA256"}
BankArgs == {"sha1", "sha256", "SHA256", "nosuchdigest"}
PcrArgs == {"7", "x"}
DeviceArgs == {"list", "auto", "/dev/tpmrm0"}
RpcPcrs == {7, TPM2_PCR_SYSTEM_IDENTITY, TPM2_PCRS_MAX}
\* the strings "" and "a"
RpcTexts == {<<>>, <<97>>}
RpcDatas == {"!", "", "YQ=="}
\* bytes: 'a' = 97, ':' = 58, '/' = 47, '\' = 92, 'x' = 120
\* a word of n bytes: a backslash followed by 'a's
LongWord(n) == [i \in 1..n |-> IF i = 1 THEN 92 ELSE 97]
ArgWords == {<<>>, <<97>>, <<92, 58>>,
             LongWord(EXTENSION_STRING_SAFE_LIMIT),
             LongWord(EXTENSION_STRING_SAFE_LIMIT + 1)}
Paths == {<<47, 97>>}
\* what chase_and_open() normalizes the path to: "/a", "/:"
NormalizedPaths == {<<47, 97>>, <<47, 58>>}
MachineIds == {[i \in 1..32 |-> 97]}
\* what blkid_probe_lookup_value() finds for TYPE, UUID, LABEL,
\* PART_ENTRY_UUID, PART_ENTRY_TYPE, PART_ENTRY_NAME (NULL: no such value)
Probes == {<<NULL, NULL, NULL, NULL, NULL, NULL>>,
           <<Some(<<97>>), NULL, Some(<<97, 58>>), NULL, NULL, NULL>>}

(***************************************************************************)
(* Library functions the program calls.                                    *)
(***************************************************************************)
\* EVP_get_digestbyname() followed by EVP_MD_name(): the canonical name of
\* the digest, NULL for an unknown name.
EVP_MD_name(optarg) ==
    CASE optarg \in {"sha1", "SHA1"} -> Some("SHA1")
      [] optarg \in {"sha256", "SHA256"} -> Some("SHA256")
      [] OTHER -> NULL

TPM2_PCR_INDEX_VALID(x) == x >= 0 /\ x < TPM2_PCRS_MAX

\* tpm2_pcr_index_from_string(): the index, or a negative errno.
tpm2_pcr_index_from_string(optarg) ==
    CASE optarg = "7" -> 7
      [] optarg = "11" -> 11
      [] optarg = "15" -> 15
      [] OTHER -> -1

\* json_variant_unbase64(): the decoded bytes, or NULL for a string that is
\* not base64.
json_variant_unbase64(s) ==
    CASE s = "" -> Some(<<>>)
      [] s = "YQ==" -> Some(<<97>>)
      [] s = "YTo=" -> Some(<<97, 58>>)
      [] OTHER -> NULL

\* The order in which tpm2_get_good_pcr_banks_strv() lists a set of banks.
BankSeq(S) ==
    LET all == <<"SHA1", "SHA256">>
        in_S(b) == b \in S
    IN SelectSeq(all, in_S)

hexchar(n) == IF n < 10 THEN 48 + n ELSE 97 + (n - 10)

\* xescape(s, bad): bytes below ' ', from 127 on, the backslash and the
\* bytes of bad become \xHH.
RECURSIVE xescape(_, _)
xescape(s, bad) ==
    IF s = <<>> THEN <<>>
    ELSE LET c == Head(s)
             e == IF c < 32 \/ c >= 127 \/ c = 92 \/ c \in bad
                  THEN <<92, 120, hexchar(c \div 16), hexchar(c % 16)>>
                  ELSE <<c>>
         IN e \o xescape(Tail(s), bad)

strempty(p) == IF p = NULL THEN <<>> ELSE Val(p)

RECURSIVE strv_join(_, _)
strv_join(l, sep) ==
    IF l = <<>> THEN <<>>
    ELSE IF Len(l) = 1 THEN Head(l)
    ELSE Head(l) \o sep \o strv_join(Tail(l), sep)

VARIABLES
    \* the invocation and its environment
    argv_words,        \* positional arguments, argv[optind..argc-1]
    varlink_inv,       \* what varlink_invocation() returns: -1, 0, 1
    tpm_support,       \* what tpm2_support() returns
    measured_uki,      \* what efi_measured_uki() returns: -1, 0, 1
    \* the program's globals
    arg_graceful, arg_tpm2_device, arg_banks, arg_file_system,
    arg_machine_id, arg_pcr_index, arg_varlink,
    \* run()
    pc, nopts, word, event, exit_status, outcome,
    run_r,             \* what run() returned
    fs_id,             \* what the file-system word was built from: the
                       \* normalized path and the six values looked up
    \* extend_now()
    req,               \* the arguments of the running extend_now() call
    ctx,               \* the number of Tpm2Context objects held
    n_now,             \* extend_now() calls made by the one-shot run or by
                       \* the call being served
    now_r,             \* what the last of them returned (NULL: none did)
    \* vl_method_extend()
    call,              \* the parameters of the method call being served
    reply,             \* what the call was answered with
    n_calls,
    \* history
    opt_pcr,           \* arg_pcr_index as the options left it
    cfg_banks,         \* arg_banks as the options left it
    shadow_banks,      \* arg_banks as the last successful extend_now() left it
    ext,               \* the tpm2_extend_bytes() invocation of this call
    n_ctx, n_ext, n_log, \* contexts opened, extends invoked, records logged
                       \* by the one-shot run or by the call being served
    journal,           \* the completion record of this call (NULL: none)
    io                 \* I/O and hardware interaction done so far

vars == <<argv_words, varlink_inv, tpm_support, measured_uki,
          arg_graceful, arg_tpm2_device, arg_banks, arg_file_system,
          arg_machine_id, arg_pcr_index, arg_varlink,
          pc, nopts, word, fs_id, event, exit_status, run_r, outcome,
          req, ctx, n_now, now_r, call, reply, n_calls,
          opt_pcr, cfg_banks, shadow_banks, ext, n_ctx, n_ext, n_log, journal, io>>

env_vars == <<argv_words, varlink_inv, tpm_support, measured_uki>>
arg_vars == <<arg_graceful, arg_tpm2_device, arg_banks, arg_file_system,
              arg_machine_id, arg_pcr_index, arg_varlink>>
engine_vars == <<req, ctx, n_now, now_r, ext, n_ctx, n_ext, n_log, journal,
                 shadow_banks>>
rpc_vars == <<call, reply, n_calls>>
hist_vars == <<opt_pcr, cfg_banks>>

\* The command lines' positional arguments: none, one word, or several.
WordLists(n) ==
    {<<>>} \cup {<<w>> : w \in ArgWords}
           \cup {[i \in 1..k |-> <<97>>] : k \in 2..n}

Init ==
    /\ argv_words \in WordLists(MaxWords)
    /\ varlink_inv \in {-1, 0, 1}
    \* tpm2_support() and efi_measured_uki() are called by one-shot runs
    \* only (lines 489, 495): for the other invocations one environment
    \* stands for all.
    /\ tpm_support \in (IF varlink_inv = 0 THEN {"FULL", "NONE"} ELSE {"FULL"})
    /\ measured_uki \in (IF varlink_inv = 0 THEN {-1, 0, 1} ELSE {1})
    /\ arg_graceful = FALSE
    /\ arg_tpm2_device = NULL
    /\ arg_banks = <<>>
    /\ arg_file_system = NULL
    /\ arg_machine_id = FALSE
    /\ arg_pcr_index = UINT_MAX
    /\ arg_varlink = FALSE
    /\ pc = "getopt"
    /\ nopts = 0
    /\ word = NULL
    /\ fs_id = NULL
    /\ event = "INVALID"
    /\ exit_status = -1
    /\ run_r = 0
    /\ outcome = "running"
    /\ req = NULL
    /\ ctx = 0
    /\ n_now = 0
    /\ now_r = NULL
    /\ call = NULL
    /\ reply = "none"
    /\ n_calls = 0
    /\ opt_pcr = UINT_MAX
    /\ cfg_banks = <<>>
    /\ shadow_banks = <<>>
    /\ ext = NULL
    /\ n_ctx = 0
    /\ n_ext = 0
    /\ n_log = 0
    /\ journal = NULL
    /\ io = {}

(***************************************************************************)
(* main(): run() returned r.                                               *)
(***************************************************************************)
MainReturn(r, how) ==
    /\ pc' = "done"
    /\ run_r' = r
    /\ exit_status' = IF r < 0 THEN EXIT_FAILURE ELSE EXIT_SUCCESS
    /\ outcome' = how

(***************************************************************************)
(* parse_argv(): one iteration of the getopt_long() loop per action.       *)
(***************************************************************************)
InLoop == pc = "getopt" /\ nopts < MaxOpts

OptHelp ==
    /\ InLoop
    /\ MainReturn(0, "help")
    /\ nopts' = 0
    /\ UNCHANGED <<env_vars, arg_vars, word, fs_id, event, engine_vars,
                   rpc_vars, hist_vars, io>>

OptVersion ==
    /\ InLoop
    /\ MainReturn(0, "version")
    /\ nopts' = 0
    /\ UNCHANGED <<env_vars, arg_vars, word, fs_id, event, engine_vars,
                   rpc_vars, hist_vars, io>>

OptBank ==
    /\ InLoop
    /\ \E optarg \in BankArgs :
         LET implementation == EVP_MD_name(optarg)
         IN IF implementation = NULL
            THEN /\ MainReturn(-1, "unknown_bank")
                 /\ nopts' = 0
                 /\ UNCHANGED arg_banks
            ELSE /\ arg_banks' = Append(arg_banks, Val(implementation))
                 /\ nopts' = nopts + 1
                 /\ UNCHANGED <<pc, exit_status, run_r, outcome>>
    /\ UNCHANGED <<env_vars, arg_graceful, arg_tpm2_device,
                   arg_file_system, arg_machine_id, arg_pcr_index, arg_varlink,
                   word, fs_id, event, engine_vars, rpc_vars, hist_vars, io>>

OptPcr ==
    /\ InLoop
    /\ \E optarg \in PcrArgs :
         LET r == tpm2_pcr_index_from_string(optarg)
         IN IF r < 0
            THEN /\ MainReturn(r, "bad_pcr")
                 /\ nopts' = 0
                 /\ UNCHANGED arg_pcr_index
            ELSE /\ arg_pcr_index' = r
                 /\ nopts' = nopts + 1
                 /\ UNCHANGED <<pc, exit_status, run_r, outcome>>
    /\ UNCHANGED <<env_vars, arg_graceful, arg_tpm2_device, arg_banks,
                   arg_file_system, arg_machine_id, arg_varlink,
                   word, fs_id, event, engine_vars, rpc_vars, hist_vars, io>>

OptTpm2Device ==
    /\ InLoop
    /\ \E optarg \in DeviceArgs :
         IF optarg = "list"
         THEN \* tpm2_list_devices() enumerates the TPM devices; it may fail
              /\ \E r \in {-1, 0} : MainReturn(r, "list")
              /\ io' = io \cup {"tpm2_list_devices"}
              /\ nopts' = 0
              /\ UNCHANGED arg_tpm2_device
         ELSE /\ arg_tpm2_device' = IF optarg = "auto" THEN NULL ELSE Some(optarg)
              /\ nopts' = nopts + 1
              /\ UNCHANGED <<pc, exit_status, run_r, outcome, io>>
    /\ UNCHANGED <<env_vars, arg_graceful, arg_banks,
                   arg_file_system, arg_machine_id, arg_pcr_index, arg_varlink,
                   word, fs_id, event, engine_vars, rpc_vars, hist_vars>>

OptGraceful ==
    /\ InLoop
    /\ arg_graceful' = TRUE
    /\ nopts' = nopts + 1
    /\ UNCHANGED <<env_vars, arg_tpm2_device, arg_banks,
                   arg_file_system, arg_machine_id, arg_pcr_index, arg_varlink,
                   pc, word, fs_id, event, exit_status, run_r, outcome,
                   engine_vars, rpc_vars, hist_vars, io>>

OptFileSystem ==
    /\ InLoop
    /\ \E optarg \in Paths, r \in {-1, 0} :
         \* parse_path_argument() makes the path absolute; it may fail
         IF r < 0
         THEN /\ MainReturn(r, "bad_path")
              /\ nopts' = 0
              /\ UNCHANGED arg_file_system
         ELSE /\ arg_file_system' = Some(optarg)
              /\ nopts' = nopts + 1
              /\ UNCHANGED <<pc, exit_status, run_r, outcome>>
    /\ UNCHANGED <<env_vars, arg_graceful, arg_tpm2_device, arg_banks,
                   arg_machine_id, arg_pcr_index, arg_varlink,
                   word, fs_id, event, engine_vars, rpc_vars, hist_vars, io>>

OptMachineId ==
    /\ InLoop
    /\ arg_machine_id' = TRUE
    /\ nopts' = nopts + 1
    /\ UNCHANGED <<env_vars, arg_graceful, arg_tpm2_device, arg_banks,
                   arg_file_system, arg_pcr_index, arg_varlink,
                   pc, word, fs_id, event, exit_status, run_r, outcome,
                   engine_vars, rpc_vars, hist_vars, io>>

OptUnknown ==
    /\ InLoop
    /\ MainReturn(-1, "unknown_option")
    /\ nopts' = 0
    /\ UNCHANGED <<env_vars, arg_vars, word, fs_id, event, engine_vars,
                   rpc_vars, hist_vars, io>>

\* OptionsConflict with the check left out.
OptionsConflict_unchecked(file_system, machine_id) == FALSE

\* Lines 170-171: the two subject options exclude each other.
OptionsConflict(file_system, machine_id) ==
    file_system # NULL /\ machine_id

\* DefaultPcrIndex with the two branches swapped.
DefaultPcrIndex_swapped(file_system, machine_id) ==
    IF file_system # NULL \/ machine_id
    THEN TPM2_PCR_KERNEL_BOOT
    ELSE TPM2_PCR_SYSTEM_IDENTITY

\* Lines 179-181: the PCR index used when --pcr= was not given.
DefaultPcrIndex(file_system, machine_id) ==
    IF file_system # NULL \/ machine_id
    THEN TPM2_PCR_SYSTEM_IDENTITY
    ELSE TPM2_PCR_KERNEL_BOOT

\* getopt_long() returned -1: the rest of parse_argv(), lines 170-183.
ParseArgvEnd ==
    /\ pc = "getopt"
    /\ nopts' = 0
    /\ opt_pcr' = arg_pcr_index
    /\ cfg_banks' = arg_banks
    /\ shadow_banks' = arg_banks
    /\ IF OptionsConflict(arg_file_system, arg_machine_id)
       THEN /\ MainReturn(-1, "options_conflict")
            /\ UNCHANGED <<arg_varlink, arg_pcr_index>>
       ELSE IF varlink_inv < 0
       THEN /\ MainReturn(varlink_inv, "varlink_invocation_failed")
            /\ UNCHANGED <<arg_varlink, arg_pcr_index>>
       ELSE /\ pc' = "run"
            /\ UNCHANGED <<exit_status, run_r, outcome>>
            /\ IF varlink_inv > 0
               THEN /\ arg_varlink' = TRUE
                    /\ UNCHANGED arg_pcr_index
               ELSE /\ UNCHANGED arg_varlink
                    /\ arg_pcr_index' =
                         IF arg_pcr_index = UINT_MAX
                         THEN DefaultPcrIndex(arg_file_system, arg_machine_id)
                         ELSE arg_pcr_index
    /\ UNCHANGED <<env_vars, arg_graceful, arg_tpm2_device, arg_banks,
                   arg_file_system, arg_machine_id, word, fs_id, event,
                   req, ctx, n_now, now_r, ext, n_ctx, n_ext, n_log, journal,
                   rpc_vars, io>>

(***************************************************************************)
(* run(), one-shot modes: the word builders, lines 415-487.                *)
(***************************************************************************)
FILE_SYSTEM_PREFIX == <<102, 105, 108, 101, 45, 115, 121, 115, 116, 101, 109, 58>>
MACHINE_ID_PREFIX == <<109, 97, 99, 104, 105, 110, 101, 45, 105, 100, 58>>
COLON == <<58>>

\* get_file_system_word that joins the values as they are.
get_file_system_word_unescaped(prefix, probe) ==
    strv_join(<<prefix>> \o [i \in 1..6 |-> strempty(probe[i])], COLON)

\* Lines 241-267: the prefix and the six escaped values, joined by ":".
get_file_system_word(prefix, probe) ==
    strv_join(<<prefix>> \o [i \in 1..6 |-> xescape(strempty(probe[i]), {58})],
              COLON)

\* Lines 433-445: the word for a mount point without backing block device.
fallback_file_system_word(prefix) ==
    prefix \o <<58, 58, 58, 58, 58, 58>>

\* ExpectedNoArgument with the check left out.
ExpectedNoArgument_unchecked(words) == FALSE

\* Line 420, 459: the two option modes take no positional argument.
ExpectedNoArgument(words) == Len(words) # 0

\* Line 473: plain-word mode takes exactly one.
ExpectedSingleArgument(words) == Len(words) # 1

\* OneShot when run() falls through from the service branch.
OneShot_fallthrough == pc = "run"

\* Lines 391-415: the one-shot modes are reached only when not a service.
OneShot == pc = "run" /\ ~arg_varlink

\* what blkid_do_safeprobe() returns
SafeprobeResults == {"ERROR", "AMBIGUOUS", "NOT_FOUND", "FOUND"}

\* safeprobe_errno that reports every failed probe as an I/O error.
safeprobe_errno_all_eio(sp) == IF sp = "FOUND" THEN 0 ELSE -EIO

\* Lines 233-239: what get_file_system_word() returns for the result of
\* blkid_do_safeprobe(); 0: it goes on.
safeprobe_errno(sp) ==
    CASE sp = "ERROR" -> -EIO
      [] sp \in {"AMBIGUOUS", "NOT_FOUND"} -> -ENOPKG
      [] OTHER -> 0

RunFileSystem ==
    /\ OneShot
    /\ arg_file_system # NULL
    /\ IF ExpectedNoArgument(argv_words)
       THEN /\ MainReturn(-1, "expected_no_argument")
            /\ UNCHANGED <<word, fs_id, event, io>>
       ELSE
         \E step \in {"chase_failed", "mount_point_failed", "not_mount_point",
                      "no_block_device", "open_failed", "probed"},
            sp \in SafeprobeResults,
            normalized \in NormalizedPaths, probe \in Probes :
              LET prefix == FILE_SYSTEM_PREFIX \o xescape(normalized, {58})
                  r == safeprobe_errno(sp)
              IN CASE step = "no_block_device" ->
                        \* lines 442-447
                        /\ word' = Some(fallback_file_system_word(prefix))
                        /\ fs_id' = Some([normalized |-> normalized,
                                          values |-> [i \in 1..6 |-> <<>>]])
                        /\ event' = "FILESYSTEM"
                        /\ pc' = "graceful"
                        /\ io' = io \cup {"file_system"}
                        /\ UNCHANGED <<exit_status, run_r, outcome>>
                   [] step = "open_failed" ->
                        \* sd_device_open(), lines 214-216
                        /\ MainReturn(-1, step)
                        /\ io' = io \cup {"file_system", "block_device"}
                        /\ UNCHANGED <<word, fs_id, event>>
                   [] step = "probed" ->
                        /\ io' = io \cup {"file_system", "block_device"}
                        /\ IF r < 0
                           THEN /\ MainReturn(r, IF sp = "ERROR"
                                                 THEN "probe_error"
                                                 ELSE "probe_unsupported")
                                /\ UNCHANGED <<word, fs_id, event>>
                           ELSE /\ word' =
                                     Some(get_file_system_word(prefix, probe))
                                /\ fs_id' =
                                     Some([normalized |-> normalized,
                                           values |-> [i \in 1..6 |->
                                                         strempty(probe[i])]])
                                /\ event' = "FILESYSTEM"
                                /\ pc' = "graceful"
                                /\ UNCHANGED <<exit_status, run_r, outcome>>
                   [] OTHER ->
                        /\ MainReturn(-1, step)
                        /\ io' = io \cup {"file_system"}
                        /\ UNCHANGED <<word, fs_id, event>>
    /\ UNCHANGED <<env_vars, arg_vars, nopts, engine_vars, rpc_vars, hist_vars>>

RunMachineId ==
    /\ OneShot
    /\ arg_file_system = NULL
    /\ arg_machine_id
    /\ IF ExpectedNoArgument(argv_words)
       THEN /\ MainReturn(-1, "expected_no_argument")
            /\ UNCHANGED <<word, event, io>>
       ELSE
         /\ io' = io \cup {"machine_id"}
         /\ \/ /\ MainReturn(-1, "machine_id_failed")
               /\ UNCHANGED <<word, event>>
            \/ \E mid \in MachineIds :
                 /\ word' = Some(MACHINE_ID_PREFIX \o mid)
                 /\ event' = "MACHINE_ID"
                 /\ pc' = "graceful"
                 /\ UNCHANGED <<exit_status, run_r, outcome>>
    /\ UNCHANGED <<env_vars, arg_vars, nopts, fs_id, engine_vars, rpc_vars,
                   hist_vars>>

\* isempty that finds no string empty.
isempty_never(p) == FALSE

\* Line 483: isempty(word).
isempty(p) == p = <<>>

RunWord ==
    /\ OneShot
    /\ arg_file_system = NULL
    /\ ~arg_machine_id
    /\ IF ExpectedSingleArgument(argv_words)
       THEN /\ MainReturn(-1, "expected_single_argument")
            /\ UNCHANGED <<word, event>>
       ELSE
         /\ word' = Some(argv_words[1])
         /\ IF isempty(argv_words[1])
            THEN /\ MainReturn(-1, "empty_word")
                 /\ UNCHANGED event
            ELSE /\ event' = "PHASE"
                 /\ pc' = "graceful"
                 /\ UNCHANGED <<exit_status, run_r, outcome>>
    /\ UNCHANGED <<env_vars, arg_vars, nopts, fs_id, engine_vars, rpc_vars,
                   hist_vars, io>>

(***************************************************************************)
(* run(), the two gates, lines 489-501, and the call of extend_now().      *)
(***************************************************************************)
\* GracefulSkip with the test of tpm2_support() inverted.
GracefulSkip_inverted(graceful, support) == graceful /\ support = "FULL"

\* Line 489.
GracefulSkip(graceful, support) == graceful /\ support # "FULL"

GracefulGate ==
    /\ pc = "graceful"
    /\ io' = IF arg_graceful THEN io \cup {"tpm2_support"} ELSE io
    /\ IF GracefulSkip(arg_graceful, tpm_support)
       THEN MainReturn(0, "graceful_skip")
       ELSE /\ pc' = "stub"
            /\ UNCHANGED <<exit_status, run_r, outcome>>
    /\ UNCHANGED <<env_vars, arg_vars, nopts, word, fs_id, event, engine_vars,
                   rpc_vars, hist_vars>>

\* StubSkip that lets PCR 11 through.
StubSkip_other_pcrs(r, pcr, ev) == r = 0 /\ pcr # TPM2_PCR_KERNEL_BOOT

\* Lines 495-501: the gate is applied whatever arg_pcr_index and event are.
StubSkip(r, pcr, ev) == r = 0

StubGate ==
    /\ pc = "stub"
    /\ io' = io \cup {"efi_measured_uki"}
    /\ IF measured_uki < 0
       THEN /\ MainReturn(measured_uki, "efi_measured_uki_failed")
            /\ UNCHANGED <<req, n_now>>
       ELSE IF StubSkip(measured_uki, arg_pcr_index, event)
       THEN /\ MainReturn(0, "stub_skip")
            /\ UNCHANGED <<req, n_now>>
       ELSE \* line 503: extend_now(arg_pcr_index, word, strlen(word), event)
            /\ req' = Some([pcr |-> arg_pcr_index, data |-> Val(word),
                            event |-> event, caller |-> "run"])
            /\ n_now' = n_now + 1
            /\ pc' = "tpm2_context_new"
            /\ UNCHANGED <<exit_status, run_r, outcome>>
    /\ UNCHANGED <<env_vars, arg_vars, nopts, word, fs_id, event, ctx, now_r,
                   ext, n_ctx, n_ext, n_log, journal, shadow_banks, rpc_vars,
                   hist_vars>>

(***************************************************************************)
(* extend_now(), lines 270-317.                                            *)
(***************************************************************************)
\* tpm2_context_unrefp that keeps the context.
tpm2_context_unrefp_leak(c) == c

\* Line 271: the _cleanup_ of the local Tpm2Context pointer, run on every
\* return of extend_now().  c: the contexts held; NULL is left alone.
tpm2_context_unrefp(c) == IF c > 0 THEN c - 1 ELSE c

\* extend_now() returns r to its caller: run() (lines 504-507) or
\* vl_method_extend() (lines 374-377).  The context is released on every
\* return (_cleanup_).
ExtendNowReturn(r, how) ==
    /\ ctx' = tpm2_context_unrefp(ctx)
    /\ req' = NULL
    /\ now_r' = Some(r)
    /\ IF Val(req).caller = "run"
       THEN /\ MainReturn(r, how)
            /\ UNCHANGED reply
       ELSE /\ pc' = "replied"
            /\ reply' = IF r < 0 THEN "error" ELSE "ok"
            /\ UNCHANGED <<exit_status, run_r, outcome>>

Tpm2ContextNew ==
    /\ pc = "tpm2_context_new"
    /\ \/ /\ ctx' = ctx + 1
          /\ n_ctx' = n_ctx + 1
          /\ pc' = "determine_banks"
          /\ UNCHANGED <<req, now_r, reply, exit_status, run_r, outcome>>
       \/ /\ ExtendNowReturn(-1, "tpm2_context_new_failed")
          /\ UNCHANGED n_ctx
    /\ io' = io \cup {"tpm2"}
    /\ UNCHANGED <<env_vars, arg_vars, nopts, word, fs_id, event, n_now, ext,
                   n_ext,
                   n_log, journal, shadow_banks, call, n_calls, hist_vars>>

\* cescape_length(): the C escape of each byte.  Control characters with
\* a letter escape, the backslash and the quotes take two characters, other
\* bytes below ' ' or from 127 on take a backslash and three octal digits.
cescape_char(c) ==
    CASE c = 7 -> <<92, 97>>
      [] c = 8 -> <<92, 98>>
      [] c = 9 -> <<92, 116>>
      [] c = 10 -> <<92, 110>>
      [] c = 11 -> <<92, 118>>
      [] c = 12 -> <<92, 102>>
      [] c = 13 -> <<92, 114>>
      [] c \in {34, 39, 92} -> <<92, c>>
      [] OTHER -> IF c < 32 \/ c >= 127
                  THEN <<92, 48 + (c \div 64), 48 + ((c \div 8) % 8),
                         48 + (c % 8)>>
                  ELSE <<c>>

RECURSIVE cescape(_)
cescape(s) ==
    IF s = <<>> THEN <<>>
    ELSE IF Len(s) = 1 THEN cescape_char(s[1])
    ELSE LET h == Len(s) \div 2
         IN cescape(SubSeq(s, 1, h)) \o cescape(SubSeq(s, h + 1, Len(s)))

cescape_length(s, n) == cescape(SubSeq(s, 1, n))

ELLIPSIS == <<46, 46, 46>>

\* safe_string that escapes the whole payload whatever its size.
safe_string_untruncated(data) == cescape_length(data, Len(data))

\* Lines 289-301: the text that is logged for the payload.
safe_string(data) ==
    IF Len(data) > EXTENSION_STRING_SAFE_LIMIT
    THEN cescape_length(data, EXTENSION_STRING_SAFE_LIMIT) \o ELLIPSIS
    ELSE cescape_length(data, Len(data))

\* determine_banks that asks the TPM whatever arg_banks holds.
determine_banks_always_asks(banks, good) == BankSeq(good)

\* determine_banks(), lines 186-201, when the TPM query succeeds: the value
\* of arg_banks afterwards.  good: the banks the TPM holds a valid digest in
\* for the target PCR.
determine_banks(banks, good) ==
    IF banks # <<>> THEN banks ELSE BankSeq(good)

\* Lines 278-287.  The TPM's state is an input of the call: good is drawn
\* whether or not the program asks for it.
DetermineBanks ==
    /\ pc = "determine_banks"
    /\ \E good \in SUBSET Banks :
         \/ \* tpm2_get_good_pcr_banks_strv() fails
            /\ arg_banks = <<>>
            /\ ExtendNowReturn(-1, "determine_banks_failed")
            /\ UNCHANGED <<arg_banks, ext>>
         \/ /\ arg_banks' = determine_banks(arg_banks, good)
            /\ ext' = Some([pcr |-> Val(req).pcr, data |-> Val(req).data,
                            event |-> Val(req).event,
                            banks |-> arg_banks',
                            good |-> BankSeq(good),
                            asked |-> arg_banks = <<>>,
                            secret |-> NULL,
                            joined_banks |-> strv_join(arg_banks', ", "),
                            safe |-> safe_string(Val(req).data),
                            would |-> determine_banks(shadow_banks, good),
                            invoked |-> FALSE])
            /\ IF arg_banks' = <<>>
               THEN ExtendNowReturn(-1, "no_banks")
               ELSE /\ pc' = "tpm2_extend_bytes"
                    /\ UNCHANGED <<req, ctx, now_r, reply, exit_status, run_r,
                                   outcome>>
    /\ UNCHANGED <<env_vars, arg_graceful, arg_tpm2_device, arg_file_system,
                   arg_machine_id, arg_pcr_index, arg_varlink, nopts, word,
                   fs_id, event, n_now, n_ctx, n_ext, n_log, journal, shadow_banks, call,
                   n_calls, hist_vars, io>>

\* Lines 289-316: tpm2_extend_bytes() and the completion record.
\* LogsCompletion that writes the record whatever tpm2_extend_bytes()
\* returned.
LogsCompletion_always(r) == TRUE

\* Lines 305-314: the record is written when tpm2_extend_bytes() did not
\* fail.
LogsCompletion(r) == r >= 0

Tpm2ExtendBytes ==
    /\ pc = "tpm2_extend_bytes"
    /\ ext' = Some([Val(ext) EXCEPT !.invoked = TRUE])
    /\ n_ext' = n_ext + 1
    /\ \E r \in {-1, 0} :
         /\ ExtendNowReturn(r, IF r < 0 THEN "extend_failed" ELSE "extended")
         /\ shadow_banks' = IF r < 0 THEN shadow_banks ELSE arg_banks
         /\ IF LogsCompletion(r)
            THEN /\ n_log' = n_log + 1
                 /\ journal' = Some([MEASURING |-> Val(ext).safe,
                                     PCR |-> Val(ext).pcr,
                                     BANKS |-> Val(ext).joined_banks])
            ELSE UNCHANGED <<n_log, journal>>
    /\ UNCHANGED <<env_vars, arg_vars, nopts, word, fs_id, event, n_now, n_ctx,
                   call, n_calls, hist_vars, io>>

(***************************************************************************)
(* run() as Varlink service, lines 391-413, and vl_method_extend().        *)
(***************************************************************************)
RunVarlink ==
    /\ pc = "run"
    /\ arg_varlink
    /\ \/ MainReturn(-1, "varlink_server_failed")
       \/ /\ pc' = "serve"
          /\ UNCHANGED <<exit_status, run_r, outcome>>
    /\ UNCHANGED <<env_vars, arg_vars, nopts, word, fs_id, event, engine_vars,
                   rpc_vars, hist_vars, io>>

\* MethodExtendCheck that prefers text when both are given.
MethodExtendCheck_text_first(pcr, text, data) ==
    IF ~TPM2_PCR_INDEX_VALID(pcr) THEN [refuse |-> "pcr"]
    ELSE IF text # NULL THEN [refuse |-> "", payload |-> Val(text)]
         ELSE IF data # NULL THEN [refuse |-> "", payload |-> Val(data)]
              ELSE [refuse |-> "text"]

\* MethodExtendCheck without the range check of pcr.
MethodExtendCheck_no_pcr_check(pcr, text, data) ==
    IF text # NULL
    THEN IF data # NULL THEN [refuse |-> "data"]
         ELSE [refuse |-> "", payload |-> Val(text)]
    ELSE IF data # NULL THEN [refuse |-> "", payload |-> Val(data)]
         ELSE [refuse |-> "text"]

\* Lines 361-373: the parameter the call is refused for, or the payload
\* extend_now() is called with.
MethodExtendCheck(pcr, text, data) ==
    IF ~TPM2_PCR_INDEX_VALID(pcr) THEN [refuse |-> "pcr"]
    ELSE IF text # NULL
         THEN IF data # NULL THEN [refuse |-> "data"]
              ELSE [refuse |-> "", payload |-> Val(text)]
         ELSE IF data # NULL THEN [refuse |-> "", payload |-> Val(data)]
              ELSE [refuse |-> "text"]

VlMethodExtend ==
    /\ pc = "serve"
    /\ n_calls < MaxCalls
    /\ n_calls' = n_calls + 1
    /\ \E pcr \in {NULL} \cup {Some(x) : x \in RpcPcrs},
          text \in {NULL} \cup {Some(x) : x \in RpcTexts},
          data \in {NULL} \cup {Some(x) : x \in RpcDatas} :
         /\ call' = Some([pcr |-> pcr, text |-> text, data |-> data])
         /\ IF pcr = NULL \/ (data # NULL /\ json_variant_unbase64(Val(data)) = NULL)
            THEN \* json_dispatch() fails: "pcr" is mandatory, "data" is base64
                 /\ reply' = "error"
                 /\ pc' = "replied"
                 /\ UNCHANGED <<req, n_now>>
            ELSE LET p_data == IF data = NULL THEN NULL
                               ELSE json_variant_unbase64(Val(data))
                     c == MethodExtendCheck(Val(pcr), text, p_data)
                 IN IF c.refuse # ""
                    THEN /\ reply' = "InvalidParameter:" \o c.refuse
                         /\ pc' = "replied"
                         /\ UNCHANGED <<req, n_now>>
                    ELSE /\ req' = Some([pcr |-> Val(pcr), data |-> c.payload,
                                         event |-> "INVALID", caller |-> "varlink"])
                         /\ n_now' = n_now + 1
                         /\ pc' = "tpm2_context_new"
                         /\ UNCHANGED reply
    /\ UNCHANGED <<env_vars, arg_vars, nopts, word, fs_id, event, exit_status, run_r, outcome,
                   ctx, now_r, ext, n_ctx, n_ext, n_log, journal, shadow_banks,
                   hist_vars, io>>

\* The server sent the reply and waits for the next call.
VarlinkReplied ==
    /\ pc = "replied"
    /\ pc' = "serve"
    /\ call' = NULL
    /\ reply' = "none"
    /\ ext' = NULL
    /\ n_ctx' = 0
    /\ n_ext' = 0
    /\ n_log' = 0
    /\ journal' = NULL
    /\ n_now' = 0
    /\ now_r' = NULL
    /\ UNCHANGED <<env_vars, arg_vars, nopts, word, fs_id, event, exit_status, run_r, outcome,
                   req, ctx, n_calls, shadow_banks, hist_vars, io>>

\* varlink_server_loop_auto() returns, lines 408-412.
VarlinkLoopExit ==
    /\ pc = "serve"
    /\ \/ MainReturn(-1, "varlink_loop_failed")
       \/ MainReturn(0, "varlink_loop_exit")
    /\ UNCHANGED <<env_vars, arg_vars, nopts, word, fs_id, event, engine_vars,
                   rpc_vars, hist_vars, io>>

(***************************************************************************)
(* Vocabulary of the properties.                                           *)
(***************************************************************************)
Done == pc = "done"

\* run() returned from parse_argv() without going on (r <= 0).
ParseStops == {"help", "version", "list", "unknown_bank", "bad_pcr", "bad_path",
               "unknown_option", "options_conflict", "varlink_invocation_failed"}

\* Options that end the process by themselves.
EarlyExits == {"help", "version", "list"}

\* The invocation context is not socket activation.
NotSocketActivated == varlink_inv = 0

\* parse_argv() accepted the command line.
Accepted == pc # "getopt" /\ outcome \notin ParseStops

\* Exactly one measurement subject on the command line.
WordSubject == arg_file_system = NULL /\ ~arg_machine_id /\ Len(argv_words) = 1
FileSystemSubject == arg_file_system # NULL /\ ~arg_machine_id /\ argv_words = <<>>
MachineIdSubject == arg_file_system = NULL /\ arg_machine_id /\ argv_words = <<>>
ExactlyOneSubject == WordSubject \/ FileSystemSubject \/ MachineIdSubject

\* extend_now() was called: a request is running or the TPM was touched.
EngineInvoked == req # NULL \/ "tpm2" \in io \/ n_ctx > 0 \/ ext # NULL

\* No TPM session was opened and nothing was extended.
NothingExtended == n_ctx = 0 /\ n_ext = 0 /\ ctx = 0 /\ "tpm2" \notin io

(***************************************************************************)
(* C1.  In Service mode with no --bank configured, every Extend call       *)
(* extends exactly the banks the TPM reports good for that call's PCR      *)
(* index at the time of that call.  Violated: determine_banks() stores     *)
(* the first answer in arg_banks and every later call reuses it.           *)
(***************************************************************************)
C1_BanksRecomputedPerCall ==
    (arg_varlink /\ cfg_banks = <<>> /\ ext # NULL /\ Val(ext).invoked)
        => Val(ext).banks = Val(ext).good

(***************************************************************************)
(* C2.  In Service mode a failed extend_now() call leaves every later call *)
(* as it would have been without it: each call selects the banks it would  *)
(* select had the failed calls never been made.  Violated: a call whose    *)
(* tpm2_extend_bytes() fails has already stored its banks in arg_banks.    *)
(***************************************************************************)
C2_FailedCallLeavesNoTrace ==
    (arg_varlink /\ ext # NULL) => Val(ext).banks = Val(ext).would

(***************************************************************************)
(* C3.  As claimed: every non-Service invocation with --graceful and no    *)
(* fully functional TPM ends with exit code 0, without TPM session or      *)
(* extension.  Stated for the command lines parse_argv() accepts that name *)
(* exactly one subject with a non-empty word; violated all the same, since *)
(* the word is built before the gate.                                      *)
(***************************************************************************)
C3_GracefulAlwaysSucceeds ==
    (Done /\ NotSocketActivated /\ Accepted /\ ExactlyOneSubject
          /\ (WordSubject => argv_words[1] # <<>>)
          /\ arg_graceful /\ tpm_support # "FULL")
        => (exit_status = EXIT_SUCCESS /\ NothingExtended)

(***************************************************************************)
(* C3, amended.  With --graceful and no fully functional TPM a non-Service *)
(* invocation never opens a TPM session and never extends; it ends with    *)
(* exit code 0 once the word to measure has been built (the event tag is   *)
(* set), and fails before the gate otherwise.                              *)
(***************************************************************************)
C3_GracefulGate ==
    (NotSocketActivated /\ arg_graceful /\ tpm_support # "FULL")
        => /\ NothingExtended
           /\ req = NULL
           /\ (Done /\ event # "INVALID")
                 => (exit_status = EXIT_SUCCESS /\ outcome = "graceful_skip")
           /\ (Done /\ Accepted /\ event = "INVALID")
                 => exit_status = EXIT_FAILURE

C3_Witness ==
    /\ Done /\ NotSocketActivated /\ arg_graceful /\ tpm_support # "FULL"
    /\ outcome = "graceful_skip" /\ exit_status = EXIT_SUCCESS

(***************************************************************************)
(* C4.  The stub-measurement gate skips only an extension of PCR 11: an    *)
(* invocation targeting another PCR is not skipped because the boot stub   *)
(* did not measure the kernel image.  Violated: run() applies the gate     *)
(* whatever the PCR index and the mode.                                    *)
(***************************************************************************)
C4_StubGateOnlyPcr11 ==
    (Done /\ outcome = "stub_skip") => arg_pcr_index = TPM2_PCR_KERNEL_BOOT

(***************************************************************************)
(* C5.  When the boot stub has not measured the kernel image, a plain-word *)
(* invocation (one non-empty word, command line accepted) targeting PCR 11 *)
(* ends with exit code 0, no TPM session opened, nothing extended.         *)
(***************************************************************************)
C5_StubSkipIsNoOp ==
    (NotSocketActivated /\ Accepted /\ WordSubject /\ argv_words[1] # <<>>
          /\ arg_pcr_index = TPM2_PCR_KERNEL_BOOT /\ measured_uki = 0)
        => /\ NothingExtended
           /\ req = NULL
           /\ Done => exit_status = EXIT_SUCCESS

C5_Witness ==
    /\ Done /\ outcome = "stub_skip" /\ event = "PHASE"
    /\ arg_pcr_index = TPM2_PCR_KERNEL_BOOT /\ opt_pcr = UINT_MAX
    /\ tpm_support = "FULL" /\ exit_status = EXIT_SUCCESS

(***************************************************************************)
(* C6.  As claimed: whenever the command line holds a configuration error  *)
(* (both subject options, an unknown bank, a malformed PCR index) the      *)
(* process ends non-zero and no I/O has taken place, whatever other        *)
(* options accompany it.  Stated for the command lines on which neither    *)
(* --help nor --version is met; violated all the same, by                  *)
(* --tpm2-device=list.                                                     *)
(***************************************************************************)
ConfigurationError ==
    \/ (arg_file_system # NULL /\ arg_machine_id)
    \/ outcome \in {"unknown_bank", "bad_pcr"}

C6_ConfigErrorAlwaysFatal ==
    (Done /\ ConfigurationError /\ outcome \notin {"help", "version"})
        => (exit_status = EXIT_FAILURE /\ io = {})

(***************************************************************************)
(* C6, amended.  A configuration error that parse_argv() reports ends the  *)
(* process non-zero before any I/O; a command line with both subject       *)
(* options never gets past parse_argv(), and ends non-zero without I/O     *)
(* unless --help, --version or --tpm2-device=list ended the process first. *)
(***************************************************************************)
C6_ReportedConfigErrorFatal ==
    /\ outcome \in {"unknown_bank", "bad_pcr", "options_conflict"}
         => (Done /\ exit_status = EXIT_FAILURE /\ io = {} /\ NothingExtended
                  /\ word = NULL)
    /\ (pc # "getopt" /\ arg_file_system # NULL /\ arg_machine_id)
         => /\ Done /\ outcome \in ParseStops /\ NothingExtended
            /\ outcome \notin EarlyExits => (exit_status = EXIT_FAILURE /\ io = {})

C6_Witness ==
    /\ Done /\ outcome = "options_conflict" /\ exit_status = EXIT_FAILURE
    /\ arg_graceful /\ io = {}

(***************************************************************************)
(* C7.  As claimed: in a socket-activated invocation neither the           *)
(* exactly-one-subject rule nor the --file-system/--machine-id exclusivity *)
(* error is enforced, and no extension comes from the command line.        *)
(***************************************************************************)
C7_ServiceBeforeAllChecks ==
    varlink_inv = 1
        => /\ outcome \notin {"options_conflict", "expected_no_argument",
                              "expected_single_argument", "empty_word"}
           /\ word = NULL

(***************************************************************************)
(* C7, amended.  A socket-activated invocation whose command line          *)
(* parse_argv() accepts runs as the service whatever subject arguments are *)
(* present: the argument-count rule is not enforced, no word is built, and *)
(* every extension comes from an RPC call.  The exclusivity error is       *)
(* checked before socket activation is, and is fatal there too.            *)
(***************************************************************************)
SubjectOutcomes ==
    {"expected_no_argument", "expected_single_argument", "empty_word",
     "chase_failed", "mount_point_failed", "not_mount_point", "open_failed",
     "probe_error", "probe_unsupported", "machine_id_failed",
     "graceful_skip", "stub_skip", "efi_measured_uki_failed"}

C7_ServiceMode ==
    /\ (varlink_inv = 1 /\ Accepted) => arg_varlink
    /\ varlink_inv = 1
         => /\ outcome \notin SubjectOutcomes
            /\ word = NULL /\ event = "INVALID"
            /\ req # NULL => Val(req).caller = "varlink"
            /\ ext # NULL => (Val(ext).event = "INVALID" /\ call # NULL)
    /\ (pc # "getopt" /\ arg_file_system # NULL /\ arg_machine_id
          /\ outcome \notin (ParseStops \ {"options_conflict"}))
         => (Done /\ outcome = "options_conflict" /\ exit_status = EXIT_FAILURE)

C7_Witness ==
    /\ arg_varlink /\ pc = "replied" /\ reply = "ok"
    /\ arg_machine_id /\ Len(argv_words) = 2

(***************************************************************************)
(* C8.  In non-Service mode extend_now() is called only when exactly one   *)
(* measurement subject is present; every other combination on a command    *)
(* line that asks for a measurement (no --help, --version,                 *)
(* --tpm2-device=list) ends non-zero without a TPM session.                *)
(***************************************************************************)
C8_ExactlyOneSubject ==
    /\ (~arg_varlink /\ EngineInvoked) => ExactlyOneSubject
    /\ (Done /\ NotSocketActivated /\ outcome \notin EarlyExits
             /\ ~ExactlyOneSubject)
         => (exit_status = EXIT_FAILURE /\ NothingExtended)

C8_Witness ==
    /\ Done /\ NotSocketActivated /\ arg_machine_id /\ Len(argv_words) = 1
    /\ outcome = "expected_no_argument" /\ exit_status = EXIT_FAILURE

(***************************************************************************)
(* C9.  A one-shot invocation extends the PCR index given with --pcr=, and *)
(* without it 15 in file-system and machine-id mode and 11 in plain-word   *)
(* mode; an RPC call extends the index the call supplies.                  *)
(***************************************************************************)
C9_PcrIndex ==
    /\ (~arg_varlink /\ req # NULL)
         => Val(req).pcr = IF opt_pcr # UINT_MAX THEN opt_pcr
                           ELSE IF Val(req).event = "PHASE" THEN 11 ELSE 15
    /\ (~arg_varlink /\ ext # NULL)
         => Val(ext).pcr = IF opt_pcr # UINT_MAX THEN opt_pcr
                           ELSE IF Val(ext).event = "PHASE" THEN 11 ELSE 15
    /\ (arg_varlink /\ req # NULL) => Val(req).pcr = Val(Val(call).pcr)
    /\ (arg_varlink /\ ext # NULL) => Val(ext).pcr = Val(Val(call).pcr)
    /\ arg_varlink => arg_pcr_index = opt_pcr

C9_Witness ==
    /\ Done /\ ~arg_varlink /\ outcome = "extended" /\ opt_pcr = UINT_MAX
    /\ arg_machine_id /\ Val(ext).invoked
    /\ Val(ext).pcr = TPM2_PCR_SYSTEM_IDENTITY

(***************************************************************************)
(* C10.  An Extend call (parameters dispatched, pcr in 0..23) with both    *)
(* text and data is refused naming "data", one with neither is refused     *)
(* naming "text"; extend_now() is not called for either.                   *)
(***************************************************************************)
CallDispatched ==
    /\ call # NULL
    /\ Val(call).pcr # NULL
    /\ TPM2_PCR_INDEX_VALID(Val(Val(call).pcr))
    /\ Val(call).data # NULL => json_variant_unbase64(Val(Val(call).data)) # NULL

C10_TextXorData ==
    CallDispatched
        => /\ (Val(call).text # NULL /\ Val(call).data # NULL)
                => (pc = "replied" /\ reply = "InvalidParameter:data"
                      /\ n_ctx = 0 /\ n_ext = 0 /\ ext = NULL /\ req = NULL)
           /\ (Val(call).text = NULL /\ Val(call).data = NULL)
                => (pc = "replied" /\ reply = "InvalidParameter:text"
                      /\ n_ctx = 0 /\ n_ext = 0 /\ ext = NULL /\ req = NULL)

C10_Witness ==
    /\ pc = "replied" /\ reply = "InvalidParameter:data"
    /\ Val(call).text # NULL /\ Val(call).data # NULL

(***************************************************************************)
(* C11.  Every extension made for an Extend call targets a PCR index in    *)
(* 0..23.  A call whose pcr is outside that range is answered with an      *)
(* error and extend_now() is not called for it; when its parameters were   *)
(* dispatched (data, if present, is base64) the error is the               *)
(* invalid-parameter error naming "pcr".  A call that is accepted runs     *)
(* extend_now() exactly once, with event type INVALID (unspecified), and   *)
(* is acknowledged only if extend_now() returned success.                  *)
(***************************************************************************)
CallAccepted ==
    /\ CallDispatched
    /\ (Val(call).text = NULL) # (Val(call).data = NULL)

C11_ExtendPcrRange ==
    /\ (arg_varlink /\ req # NULL)
         => (TPM2_PCR_INDEX_VALID(Val(req).pcr) /\ Val(req).event = "INVALID")
    /\ (arg_varlink /\ ext # NULL)
         => (TPM2_PCR_INDEX_VALID(Val(ext).pcr) /\ Val(ext).event = "INVALID")
    /\ (call # NULL /\ Val(call).pcr # NULL
          /\ ~TPM2_PCR_INDEX_VALID(Val(Val(call).pcr)))
         => /\ pc = "replied" /\ reply # "ok"
            /\ n_now = 0 /\ n_ctx = 0 /\ n_ext = 0 /\ req = NULL /\ ext = NULL
            /\ (Val(call).data # NULL
                  => json_variant_unbase64(Val(Val(call).data)) # NULL)
                 => reply = "InvalidParameter:pcr"
    /\ call # NULL => n_now = (IF CallAccepted THEN 1 ELSE 0)
    /\ (CallAccepted /\ pc = "replied")
         => (now_r # NULL /\ (reply = "ok") = (Val(now_r) >= 0))
    /\ reply = "ok"
         => (CallAccepted /\ now_r = Some(0) /\ n_ext = 1 /\ Val(ext).invoked)

C11_Witness ==
    /\ pc = "replied" /\ reply = "InvalidParameter:pcr"
    /\ Val(Val(call).pcr) = TPM2_PCRS_MAX /\ Val(call).text # NULL
    /\ Val(call).data = NULL /\ n_now = 0

(***************************************************************************)
(* C12.  A Tpm2Context is opened by the extend_now() call that uses it and *)
(* released when that call returns, whatever the return path: at most one  *)
(* context is held at any time, none is held between calls or when the     *)
(* process ends, and bank selection and extension run on the context the   *)
(* same call opened.                                                       *)
(***************************************************************************)
C12_SessionPerCall ==
    /\ ctx \in {0, 1}
    /\ n_ctx <= n_now /\ n_now <= 1
    /\ ctx = 1 => (pc \in {"determine_banks", "tpm2_extend_bytes"}
                     /\ req # NULL /\ n_ctx = 1)
    /\ pc \in {"determine_banks", "tpm2_extend_bytes"} => (ctx = 1 /\ n_ctx = 1)
    /\ ext # NULL => n_ctx = 1
    /\ now_r # NULL => (ctx = 0 /\ req = NULL)
    /\ pc \in {"serve", "replied", "done"} => ctx = 0

C12_Witness ==
    /\ pc = "replied" /\ n_calls = 2 /\ now_r = Some(-1)
    /\ ext # NULL /\ Val(ext).invoked /\ n_ctx = 1 /\ ctx = 0

(***************************************************************************)
(* C13.  tpm2_extend_bytes() is never called with an empty bank list; with *)
(* no --bank configured, a call made while the TPM reports no good bank    *)
(* for the target PCR fails without extending anything, and a call made    *)
(* while it reports exactly one extends exactly that bank.  Violated in    *)
(* Service mode: from the first answered call on, arg_banks holds that     *)
(* call's banks and the TPM's report is not looked at.                     *)
(***************************************************************************)
C13_NoUsableBank ==
    /\ (ext # NULL /\ Val(ext).invoked) => Val(ext).banks # <<>>
    /\ (cfg_banks = <<>> /\ ext # NULL /\ Val(ext).good = <<>>)
         => /\ ~Val(ext).invoked /\ n_ext = 0
            /\ pc # "tpm2_extend_bytes"
            /\ now_r # NULL /\ Val(now_r) < 0
    /\ (cfg_banks = <<>> /\ ext # NULL /\ Len(Val(ext).good) = 1
          /\ Val(ext).invoked)
         => Val(ext).banks = Val(ext).good

(***************************************************************************)
(* C14.  The bank list handed to tpm2_extend_bytes() never holds the same  *)
(* digest name twice, whatever --bank options the command line gave.       *)
(* Violated: every accepted --bank appends the canonical name to arg_banks *)
(* (strv_extend), also when it is there already.                           *)
(***************************************************************************)
NoDuplicates(l) == \A i, j \in 1..Len(l) : l[i] = l[j] => i = j

C14_BanksUnique ==
    (ext # NULL /\ Val(ext).invoked) => NoDuplicates(Val(ext).banks)

(***************************************************************************)
(* C15.  When --bank configured a bank list, every extend_now() call, for  *)
(* any PCR index, one-shot or for an RPC call, hands exactly that list to  *)
(* tpm2_extend_bytes(), whatever banks the TPM holds good digests in, and  *)
(* tpm2_get_good_pcr_banks_strv() is not called.                           *)
(***************************************************************************)
C15_ExplicitBanks ==
    cfg_banks # <<>>
        => /\ arg_banks = cfg_banks
           /\ ext # NULL => (Val(ext).banks = cfg_banks /\ ~Val(ext).asked)
           /\ outcome \notin {"determine_banks_failed", "no_banks"}
           /\ (pc = "replied" /\ n_ctx = 1) => ext # NULL

C15_Witness ==
    /\ arg_varlink /\ n_calls = 2 /\ cfg_banks = <<"SHA256">>
    /\ ext # NULL /\ Val(ext).invoked /\ Val(ext).good = <<"SHA1">>
    /\ Val(ext).pcr = TPM2_PCR_SYSTEM_IDENTITY /\ Val(ext).banks = <<"SHA256">>

(***************************************************************************)
(* C16.  In plain-word mode the bytes handed to extend_now() are the bytes *)
(* of the argument, with event type PHASE, and the argument is not empty;  *)
(* the empty word ends the process non-zero with "cannot be empty", before *)
(* the gates and without extend_now() being called.                        *)
(***************************************************************************)
C16_PlainWord ==
    /\ (~arg_varlink /\ req # NULL /\ Val(req).event = "PHASE")
         => (WordSubject /\ Val(req).data = argv_words[1]
               /\ Val(req).data # <<>>)
    /\ (~arg_varlink /\ ext # NULL /\ Val(ext).event = "PHASE")
         => (WordSubject /\ Val(ext).data = argv_words[1]
               /\ Val(ext).data # <<>>)
    /\ (~arg_varlink /\ WordSubject /\ req # NULL) => Val(req).event = "PHASE"
    /\ (NotSocketActivated /\ Accepted /\ WordSubject /\ pc # "run")
         => IF argv_words[1] = <<>>
            THEN /\ Done /\ outcome = "empty_word"
                 /\ exit_status = EXIT_FAILURE
                 /\ NothingExtended /\ n_now = 0 /\ req = NULL /\ ext = NULL
                 /\ io = {}
            ELSE /\ word = Some(argv_words[1]) /\ event = "PHASE"
                 /\ outcome # "empty_word"

C16_Witness ==
    /\ Done /\ outcome = "extended" /\ ~arg_varlink /\ WordSubject
    /\ argv_words[1] = <<92, 58>> /\ Val(ext).invoked
    /\ Val(ext).data = <<92, 58>> /\ Val(ext).event = "PHASE"

(***************************************************************************)
(* C17.  As claimed: splitting a file-system identity word at the          *)
(* separator ":" gives exactly 7 fields, the escaped components prefix,    *)
(* type, uuid, label, part_entry_uuid, part_entry_type, part_entry_name.   *)
(* Violated by every word: the prefix is "file-system:" followed by the    *)
(* escaped path and holds a separator itself.                              *)
(***************************************************************************)
FirstIndex(s, c) ==
    CHOOSE i \in 1..Len(s) : s[i] = c /\ \A j \in 1..(i - 1) : s[j] # c

RECURSIVE SplitOn(_, _)
SplitOn(s, c) ==
    IF \A i \in 1..Len(s) : s[i] # c THEN <<s>>
    ELSE LET i == FirstIndex(s, c)
         IN <<SubSeq(s, 1, i - 1)>> \o SplitOn(SubSeq(s, i + 1, Len(s)), c)

EscapedValue(i) == xescape(Val(fs_id).values[i], {58})
EscapedPath == xescape(Val(fs_id).normalized, {58})

C17_SevenFields ==
    fs_id # NULL
        => LET f == SplitOn(Val(word), 58)
           IN /\ Len(f) = 7
              /\ f[1] = FILE_SYSTEM_PREFIX \o EscapedPath
              /\ \A i \in 1..6 : f[i + 1] = EscapedValue(i)

(***************************************************************************)
(* C17, amended.  Splitting a file-system identity word (probed or         *)
(* fallback) at ":" gives exactly 8 fields: the tag "file-system", the     *)
(* escaped path and the six escaped values, each byte-identical to what    *)
(* was joined, also when values are empty or hold ":".                     *)
(***************************************************************************)
FILE_SYSTEM_TAG == SubSeq(FILE_SYSTEM_PREFIX, 1, Len(FILE_SYSTEM_PREFIX) - 1)

C17_EightFields ==
    fs_id # NULL
        => LET f == SplitOn(Val(word), 58)
           IN /\ event = "FILESYSTEM"
              /\ Len(f) = 8
              /\ f[1] = FILE_SYSTEM_TAG
              /\ f[2] = EscapedPath
              /\ \A i \in 1..6 : f[i + 2] = EscapedValue(i)

C17_Witness ==
    /\ fs_id # NULL /\ pc = "graceful"
    /\ Val(fs_id).normalized = <<47, 58>>
    /\ Val(fs_id).values[3] = <<97, 58>> /\ Val(fs_id).values[2] = <<>>
    /\ Len(SplitOn(Val(word), 58)) = 8

(***************************************************************************)
(* C18.  In file-system mode on a mount point, a backing block device that *)
(* cannot be resolved does not fail the run: the word is the prefix        *)
(* followed by six empty fields and the run goes on to the gates and to    *)
(* extend_now() with it, event type FILESYSTEM.  A probe failure comes     *)
(* only after the device was resolved: an ambiguous probe or no            *)
(* recognizable super-block returns -ENOPKG, an I/O error -EIO; either     *)
(* ends the process non-zero with no word built and nothing measured.      *)
(***************************************************************************)
FileSystemFailures ==
    {"chase_failed", "mount_point_failed", "not_mount_point", "open_failed",
     "probe_error", "probe_unsupported"}

C18_FallbackAndUnsupported ==
    /\ (fs_id # NULL /\ "block_device" \notin io)
         => /\ word = Some(FILE_SYSTEM_PREFIX \o EscapedPath
                             \o <<58, 58, 58, 58, 58, 58>>)
            /\ event = "FILESYSTEM"
            /\ pc # "run" /\ outcome \notin FileSystemFailures
            /\ req # NULL => (Val(req).data = Val(word)
                                /\ Val(req).event = "FILESYSTEM")
            /\ ext # NULL => (Val(ext).data = Val(word)
                                /\ Val(ext).event = "FILESYSTEM")
    /\ outcome \in {"open_failed", "probe_error", "probe_unsupported"}
         => "block_device" \in io
    /\ outcome \in {"probe_error", "probe_unsupported"}
         => /\ Done /\ exit_status = EXIT_FAILURE
            /\ run_r = (IF outcome = "probe_unsupported" THEN -ENOPKG ELSE -EIO)
            /\ word = NULL /\ fs_id = NULL /\ event = "INVALID"
            /\ NothingExtended /\ n_now = 0 /\ req = NULL /\ ext = NULL

C18_Witness ==
    /\ Done /\ outcome = "extended" /\ fs_id # NULL /\ "block_device" \notin io
    /\ Val(fs_id).normalized = <<47, 58>>
    /\ Val(ext).invoked /\ Val(ext).event = "FILESYSTEM"
    /\ Val(ext).data = FILE_SYSTEM_PREFIX \o <<47, 92, 120, 51, 97>>
                          \o <<58, 58, 58, 58, 58, 58>>

(***************************************************************************)
(* C19.  extend_now() writes one completion record for a call that         *)
(* succeeds, after tpm2_extend_bytes() returned success, carrying the PCR  *)
(* index, the joined bank list and the escaped payload; a call that fails  *)
(* at any step, and a run that a gate skips, writes none.                  *)
(***************************************************************************)
C19_OneRecordPerSuccess ==
    /\ n_log \in {0, 1}
    /\ (n_log = 1) = (now_r # NULL /\ Val(now_r) >= 0)
    /\ (n_log = 1) = (journal # NULL)
    /\ n_log = 1
         => /\ ext # NULL /\ Val(ext).invoked /\ n_ext = 1 /\ n_now = 1
            /\ Val(journal).PCR = Val(ext).pcr
            /\ Val(journal).BANKS = strv_join(Val(ext).banks, ", ")
            /\ Val(journal).MEASURING = Val(ext).safe
    /\ pc \in {"tpm2_context_new", "determine_banks", "tpm2_extend_bytes"}
         => n_log = 0
    /\ (Done /\ ~arg_varlink) => (n_log = 1) = (outcome = "extended")
    /\ pc = "replied" => (n_log = 1) = (reply = "ok")

C19_Witness ==
    /\ pc = "replied" /\ reply = "ok" /\ n_calls = 2 /\ n_log = 1
    /\ Val(journal).PCR = TPM2_PCR_SYSTEM_IDENTITY
    /\ Val(journal).BANKS = "SHA1, SHA256"
    /\ Val(journal).MEASURING = <<97>>

(***************************************************************************)
(* C20.  The safe limit of 1024 bytes bounds the logged text only.         *)
(* tpm2_extend_bytes() receives the payload extend_now() was called with,  *)
(* all of it, and no secret; the text that is logged is the C escape of    *)
(* the whole payload when it has at most 1024 bytes, and the C escape of   *)
(* its first 1024 bytes followed by "..." when it has more.                *)
(***************************************************************************)
ExpectedSafe(data) ==
    IF Len(data) <= 1024
    THEN cescape(data)
    ELSE cescape(SubSeq(data, 1, 1024)) \o <<46, 46, 46>>

C20_SafeLimitLogOnly ==
    /\ (ext # NULL /\ req # NULL) => Val(ext).data = Val(req).data
    /\ (ext # NULL /\ ~arg_varlink)
         => (Val(ext).data = Val(word) /\ Len(Val(ext).data) = Len(Val(word)))
    /\ (ext # NULL /\ arg_varlink /\ call # NULL)
         => Val(ext).data = (IF Val(call).text # NULL THEN Val(Val(call).text)
                             ELSE Val(json_variant_unbase64(Val(Val(call).data))))
    /\ ext # NULL
         => /\ Val(ext).secret = NULL
            /\ Val(ext).safe = ExpectedSafe(Val(ext).data)
    /\ journal # NULL => Val(journal).MEASURING = ExpectedSafe(Val(ext).data)

C20_Witness ==
    /\ Done /\ outcome = "extended" /\ journal # NULL
    /\ Val(ext).invoked /\ Len(Val(ext).data) = EXTENSION_STRING_SAFE_LIMIT + 1
    /\ Val(ext).data = argv_words[1]
    /\ Len(Val(journal).MEASURING) = EXTENSION_STRING_SAFE_LIMIT + 4
    /\ SubSeq(Val(journal).MEASURING, 1, 3) = <<92, 92, 97>>

(***************************************************************************)
(* C21.  Every payload handed to tpm2_extend_bytes() is non-empty, whether *)
(* it comes from the command line or from an Extend call with text or      *)
(* data.  Violated: vl_method_extend() tests the text pointer, not the     *)
(* text, and calls extend_now() with the empty string and size 0.          *)
(***************************************************************************)
C21_PayloadNonEmpty ==
    /\ req # NULL => Val(req).data # <<>>
    /\ (ext # NULL /\ Val(ext).invoked) => Val(ext).data # <<>>

Next ==
    \/ OptHelp \/ OptVersion \/ OptBank \/ OptPcr \/ OptTpm2Device
    \/ OptGraceful \/ OptFileSystem \/ OptMachineId \/ OptUnknown
    \/ ParseArgvEnd
    \/ RunFileSystem \/ RunMachineId \/ RunWord
    \/ GracefulGate \/ StubGate
    \/ Tpm2ContextNew \/ DetermineBanks \/ Tpm2ExtendBytes
    \/ RunVarlink \/ VlMethodExtend \/ VarlinkReplied \/ VarlinkLoopExit

Spec == Init /\ [][Next]_vars

=============================================================================
